---- MODULE Spec2Model ----
(***************************************************************************)
(* Qwen2VLChatModel.chat and its two generation paths                      *)
(* (xinference/model/llm/transformers/qwen2_vl.py).                        *)
(*                                                                         *)
(* Each invocation of chat is a "call" c.  A synchronous call runs         *)
(* _generate in the caller's thread.  A streaming call returns the         *)
(* generator _generate_stream; its body runs when the consumer pulls: it   *)
(* prepares the inputs, starts the producer thread model_generate, and     *)
(* then iterates the TextIteratorStreamer, whose queue is the channel      *)
(* between the producer thread and the consumer.                           *)
(***************************************************************************)
EXTENDS Integers, Sequences, FiniteSets, TLC

(* ------------------------------ bounds -------------------------------- *)

\* Most text fragments model.generate puts on the streamer before it ends.
MaxFrags == 2

\* Most pulls a consumer makes on a generator that has already finished.
MaxExtraPulls == 1

\* The invocations of chat that are modelled (they run interleaved).
Calls == {1, 2}

(* ----------------------------- constants ------------------------------ *)

\* Python's None: an unset error slot, a null finish_reason, a null text.
None == "None"

\* TextIteratorStreamer.stop_signal (None in the library), put by end().
stop_signal == "<stop_signal>"

\* self.model_uid
model_uid == "qwen2-vl-instruct"

\* generate_config.get("stream", False)
DefaultStream == FALSE

\* config.get("max_tokens", 512)
DefaultMaxTokens == 512

\* config.get("temperature", 1)
DefaultTemperature == 1

\* prompt_tokens=-1, completion_tokens=-1, total_tokens=-1
Sentinel == -1

\* The failure chat raises for an empty or ill-formed conversation.
ValidationError == "ValidationError"

\* The failure of apply_chat_template / the processor on the messages.
TemplateError == "TemplateError"

\* queue.Empty, raised by TextIteratorStreamer.__next__ when
\* text_queue.get(timeout=60.0) times out: the stream's timeout error.
GenerationTimeoutError == "queue.Empty"

\* Failures of self._model.generate that are instances of Exception.
ExceptionErrors == {"RuntimeError", "ValueError"}

\* Failures of self._model.generate that derive from BaseException only,
\* which `except Exception` does not catch.
BaseExceptionErrors == {"SystemExit"}

EngineErrors == ExceptionErrors \cup BaseExceptionErrors

\* The decoded text of the engine's k-th fragment: a known sequence whose
\* neighbours differ, so that a loss, a duplicate or a swap shows.
EngineTexts == <<"Hel", "lo", " world">>

EngineText(k) == EngineTexts[((k - 1) % Len(EngineTexts)) + 1]

\* Full texts the synchronous generation may decode.
Texts == {"Hello", "Hello world"}

\* Text that streamer.end() flushes from its token cache: "" when the
\* cache is empty, as it is after texts that end a word.
FlushText == ""

Roles == {"system", "user", "assistant"}

\* Conversations a caller may pass: empty, well-formed, ill-formed role.
MessageInputs == {<<>>, <<"user">>, <<"tool?">>}

NoOpts == [k \in {} |-> FALSE]

\* generate_config arguments a caller may pass (given = FALSE: None).
ConfigInputs ==
    { [given |-> FALSE, opts |-> NoOpts],
      [given |-> TRUE,  opts |-> NoOpts],
      [given |-> TRUE,  opts |-> [k \in {"stream"} |-> FALSE]],
      [given |-> TRUE,  opts |-> [k \in {"stream"} |-> TRUE]],
      [given |-> TRUE,
       opts |-> [k \in {"stream", "max_tokens", "temperature"} |->
                   CASE k = "stream" -> TRUE
                     [] k = "max_tokens" -> 16
                     [] OTHER -> 2]],
      [given |-> TRUE,
       opts |-> [k \in {"stream", "max_tokens", "temperature"} |->
                   CASE k = "stream" -> FALSE
                     [] k = "max_tokens" -> 16
                     [] OTHER -> 2]] }

(* ------------------------------- state -------------------------------- *)

VARIABLES
    pc,             \* position of call c (of chat, _generate, the generator)
    argMessages,    \* the caller's messages object
    argConfig,      \* the caller's generate_config object
    stream,         \* chat's local `stream`
    config,         \* the dict chat's local generate_config names after line
                    \* 131: the caller's own dict when it is truthy, else a new {}
    returned,       \* what chat handed back: "nothing" | "ChatCompletion" | "Iterator"
    raised,         \* the error raised at the chat call site (None: none)
    result,         \* the ChatCompletion returned by chat (sync)
    prepCalls,      \* spy: input preparations done by the engine for c
    genCalls,       \* spy: invocations of self._model.generate for c
    gen_kwargs,     \* max_new_tokens / temperature passed to generate
    threads,        \* Thread objects started for c
    ppc,            \* position of the producer thread model_generate
    pexc,           \* the exception self._model.generate raised (None: none)
    nput,           \* fragments generate has put on the streamer
    text_queue,     \* streamer.text_queue
    written,        \* history: every text put on text_queue, in order
    error,          \* _generate_stream's `error` (nonlocal in model_generate)
    completion_id,  \* _generate_stream's completion_id (0: not assigned)
    yielded,        \* history: the chunks the generator yielded, in order
    cerr,           \* the error a pull raised on the consumer (None: none)
    stopIterations, \* pulls answered by StopIteration
    clock           \* uuid.uuid1()'s source of fresh values

callerVars == <<argMessages, argConfig, stream, config, returned, raised, result>>
engineVars == <<prepCalls, genCalls, gen_kwargs>>
producerVars == <<threads, ppc, pexc, nput, text_queue, written, error>>
consumerVars == <<completion_id, yielded, cerr, stopIterations>>

vars == <<pc, callerVars, engineVars, producerVars, consumerVars, clock>>

(* ------------------------------ helpers ------------------------------- *)

\* uuid.uuid1(): the value a call made now returns; the calling action
\* advances the clock, so no two calls return the same value.
uuid1 == clock

\* dict.get(key, default)
Get(d, key, default) == IF key \in DOMAIN d THEN d[key] ELSE default

\* Truthiness of a generate_config argument: None and {} are falsy.
Truthy(g) == g.given /\ DOMAIN g.opts # {}

\* ChatModelMixin._transform_messages: rejects an empty conversation and a
\* turn whose role is not one of the fixed roles; otherwise hands on a new
\* list of the same turns.
_transform_messages(messages) ==
    IF messages = <<>> \/ \E i \in DOMAIN messages : messages[i] \notin Roles
    THEN [ok |-> FALSE, value |-> <<>>]
    ELSE [ok |-> TRUE, value |-> [i \in DOMAIN messages |-> messages[i]]]

\* generate_chat_completion(model_uid, response): the formatter of the
\* synchronous result.  Its finish_reason defaults to "stop"; usage
\* counters that the caller does not pass are the "not computed" sentinel.
generate_chat_completion(uid, response) ==
    [id |-> uuid1, model |-> uid, text |-> response, finish_reason |-> "stop",
     usage |-> [prompt_tokens |-> Sentinel, completion_tokens |-> Sentinel,
                total_tokens |-> Sentinel]]

\* generate_completion_chunk(...): the formatter of one streamed fragment.
generate_completion_chunk(chunk_text, finish_reason, chunk_id, uid, usage) ==
    [id |-> chunk_id, model |-> uid, text |-> chunk_text,
     finish_reason |-> finish_reason,
     usage |-> [prompt_tokens |-> usage, completion_tokens |-> usage,
                total_tokens |-> usage]]

NoResult == [id |-> 0, model |-> None, text |-> None, finish_reason |-> None,
             usage |-> [prompt_tokens |-> 0, completion_tokens |-> 0,
                        total_tokens |-> 0]]

NoKwargs == [max_new_tokens |-> 0, temperature |-> 0]

(* ------------------------------- Init --------------------------------- *)

Init ==
    /\ pc = [c \in Calls |-> "idle"]
    /\ argMessages = [c \in Calls |-> <<>>]
    /\ argConfig = [c \in Calls |-> [given |-> FALSE, opts |-> NoOpts]]
    /\ stream = [c \in Calls |-> FALSE]
    /\ config = [c \in Calls |-> NoOpts]
    /\ returned = [c \in Calls |-> "nothing"]
    /\ raised = [c \in Calls |-> None]
    /\ result = [c \in Calls |-> NoResult]
    /\ prepCalls = [c \in Calls |-> 0]
    /\ genCalls = [c \in Calls |-> 0]
    /\ gen_kwargs = [c \in Calls |-> NoKwargs]
    /\ threads = [c \in Calls |-> 0]
    /\ ppc = [c \in Calls |-> "none"]
    /\ pexc = [c \in Calls |-> None]
    /\ nput = [c \in Calls |-> 0]
    /\ text_queue = [c \in Calls |-> <<>>]
    /\ written = [c \in Calls |-> <<>>]
    /\ error = [c \in Calls |-> None]
    /\ completion_id = [c \in Calls |-> 0]
    /\ yielded = [c \in Calls |-> <<>>]
    /\ cerr = [c \in Calls |-> None]
    /\ stopIterations = [c \in Calls |-> 0]
    /\ clock = 1

(* ------------------------------- chat --------------------------------- *)

\* chat_raises with the messages transformed inside _generate only: a
\* streaming call hands back its generator without looking at them.
chat_raises_sync_only(t, s) == ~t.ok /\ ~s

\* Line 129: messages = self._transform_messages(messages), the first
\* statement of chat, before the config is read: its failure leaves chat at
\* once, whatever the mode asked for (s).
chat_raises(t, s) == ~t.ok

\* Line 131: generate_config if generate_config else {}
config_of(g) == IF Truthy(g) THEN g.opts ELSE NoOpts

\* stream_of with the default of the get turned round and no guard.
stream_of_default_true(g) == Get(config_of(g), "stream", TRUE)

\* Line 133: generate_config.get("stream", False) if generate_config else False
stream_of(g) == IF Truthy(g) THEN Get(config_of(g), "stream", DefaultStream) ELSE FALSE

\* chat with _generate_stream as a plain function that prepares the inputs
\* and starts the thread before it hands back an iterator: the stream
\* branch does the work of lines 186-222 inside the chat call.
chat_eager(c) ==
    /\ pc[c] = "idle"
    /\ \A d \in Calls : d < c => pc[d] # "idle"
    /\ \E m \in MessageInputs, g \in ConfigInputs :
        LET t == _transform_messages(m)
            s == stream_of(g)
        IN
        /\ argMessages' = [argMessages EXCEPT ![c] = m]
        /\ argConfig' = [argConfig EXCEPT ![c] = g]
        /\ IF chat_raises(t, s)
           THEN /\ raised' = [raised EXCEPT ![c] = ValidationError]
                /\ pc' = [pc EXCEPT ![c] = "raised"]
                /\ UNCHANGED <<stream, config, returned, engineVars, producerVars>>
           ELSE /\ config' = [config EXCEPT ![c] = config_of(g)]
                /\ stream' = [stream EXCEPT ![c] = s]
                /\ IF s
                   THEN /\ returned' = [returned EXCEPT ![c] = "Iterator"]
                        /\ prepCalls' = [prepCalls EXCEPT ![c] = @ + 1]
                        /\ gen_kwargs' = [gen_kwargs EXCEPT ![c] =
                               [max_new_tokens |-> Get(config_of(g), "max_tokens", DefaultMaxTokens),
                                temperature |-> Get(config_of(g), "temperature", DefaultTemperature)]]
                        /\ threads' = [threads EXCEPT ![c] = @ + 1]
                        /\ ppc' = [ppc EXCEPT ![c] = "spawned"]
                        /\ pc' = [pc EXCEPT ![c] = "started"]
                        /\ UNCHANGED <<genCalls, pexc, nput, text_queue, written, error>>
                   ELSE /\ pc' = [pc EXCEPT ![c] = "generate_prepare"]
                        /\ UNCHANGED <<returned, engineVars, producerVars>>
                /\ UNCHANGED raised
    /\ UNCHANGED <<result, consumerVars, clock>>

\* chat(messages, generate_config), lines 124-140: validate/transform the
\* messages, default the config, read `stream` once and branch on it.  With
\* stream set it returns the generator (whose body has not run yet); else
\* it goes on into _generate in the caller's thread.
chat(c) ==
    /\ pc[c] = "idle"
    /\ \A d \in Calls : d < c => pc[d] # "idle"
    /\ \E m \in MessageInputs, g \in ConfigInputs :
        LET t == _transform_messages(m)
            s == stream_of(g)
        IN
        /\ argMessages' = [argMessages EXCEPT ![c] = m]
        /\ argConfig' = [argConfig EXCEPT ![c] = g]
        /\ IF chat_raises(t, s)
           THEN /\ raised' = [raised EXCEPT ![c] = ValidationError]
                /\ pc' = [pc EXCEPT ![c] = "raised"]
                /\ UNCHANGED <<stream, config, returned>>
           ELSE /\ config' = [config EXCEPT ![c] = config_of(g)]
                /\ stream' = [stream EXCEPT ![c] = s]
                /\ IF s
                   THEN /\ returned' = [returned EXCEPT ![c] = "Iterator"]
                        /\ pc' = [pc EXCEPT ![c] = "created"]
                   ELSE /\ pc' = [pc EXCEPT ![c] = "generate_prepare"]
                        /\ UNCHANGED returned
                /\ UNCHANGED raised
    /\ UNCHANGED <<result, engineVars, producerVars, consumerVars, clock>>

(* ----------------------------- _generate ------------------------------ *)

\* The keyword arguments of lines 164-165 and 205-206.
kwargs_of(cfg) ==
    [max_new_tokens |-> Get(cfg, "max_tokens", DefaultMaxTokens),
     temperature |-> Get(cfg, "temperature", DefaultTemperature)]

\* _generate, lines 148-159: apply_chat_template, process_vision_info and
\* the processor turn the messages into engine inputs; a failure
\* propagates out of chat.
_generate_prepare(c) ==
    /\ pc[c] = "generate_prepare"
    /\ prepCalls' = [prepCalls EXCEPT ![c] = @ + 1]
    /\ \E ok \in BOOLEAN :
        IF ok
        THEN /\ pc' = [pc EXCEPT ![c] = "generate"]
             /\ UNCHANGED raised
        ELSE /\ pc' = [pc EXCEPT ![c] = "raised"]
             /\ raised' = [raised EXCEPT ![c] = TemplateError]
    /\ UNCHANGED <<argMessages, argConfig, stream, config, returned, result,
                   genCalls, gen_kwargs, producerVars, consumerVars, clock>>

\* _generate_fails with the call wrapped in a retry: generate is called a
\* second time before e is let through.
_generate_fails_retries(c, e) ==
    /\ genCalls' = [genCalls EXCEPT ![c] = @ + 2]
    /\ pexc' = [pexc EXCEPT ![c] = e]
    /\ raised' = [raised EXCEPT ![c] = e]
    /\ pc' = [pc EXCEPT ![c] = "raised"]
    /\ UNCHANGED <<result, returned, clock>>

\* Lines 162-166 when self._model.generate raises e: nothing in _generate
\* or chat catches it, so e itself leaves chat after that one call.
_generate_fails(c, e) ==
    /\ genCalls' = [genCalls EXCEPT ![c] = @ + 1]
    /\ pexc' = [pexc EXCEPT ![c] = e]
    /\ raised' = [raised EXCEPT ![c] = e]
    /\ pc' = [pc EXCEPT ![c] = "raised"]
    /\ UNCHANGED <<result, returned, clock>>

\* Lines 162-176 when self._model.generate returns: the trimmed ids are
\* decoded to output_text, which generate_chat_completion(self.model_uid,
\* output_text) formats; chat returns that object.
_generate_returns(c, output_text) ==
    /\ genCalls' = [genCalls EXCEPT ![c] = @ + 1]
    /\ result' = [result EXCEPT ![c] = generate_chat_completion(model_uid, output_text)]
    /\ clock' = clock + 1
    /\ returned' = [returned EXCEPT ![c] = "ChatCompletion"]
    /\ pc' = [pc EXCEPT ![c] = "returned"]
    /\ UNCHANGED <<raised, pexc>>

\* _generate, lines 162-176: one call of self._model.generate with the
\* defaulted max_tokens / temperature.
_generate(c) ==
    /\ pc[c] = "generate"
    /\ gen_kwargs' = [gen_kwargs EXCEPT ![c] = kwargs_of(config[c])]
    /\ \/ \E output_text \in Texts : _generate_returns(c, output_text)
       \/ \E e \in EngineErrors : _generate_fails(c, e)
    /\ UNCHANGED <<argMessages, argConfig, stream, config, prepCalls,
                   threads, ppc, nput, text_queue, written, error, consumerVars>>

(* -------------------------- _generate_stream -------------------------- *)
(* The generator's body runs in the consumer's pulls.  A pull runs the     *)
(* steps below up to the next yield, to a raise, or to the generator's end. *)

\* Lines 186-197, run by the first pull: the same input preparation as in
\* _generate.  A failure is raised by that pull and finishes the generator.
_generate_stream_prepare(c) ==
    /\ pc[c] = "created"
    /\ prepCalls' = [prepCalls EXCEPT ![c] = @ + 1]
    /\ \E ok \in BOOLEAN :
        IF ok
        THEN /\ pc' = [pc EXCEPT ![c] = "prepared"]
             /\ UNCHANGED cerr
        ELSE /\ pc' = [pc EXCEPT ![c] = "closed"]
             /\ cerr' = [cerr EXCEPT ![c] = TemplateError]
    /\ UNCHANGED <<callerVars, genCalls, gen_kwargs, producerVars,
                   completion_id, yielded, stopIterations, clock>>

\* dict.setdefault(key, default) on the dict d.
SetDefault(d, key, default) ==
    [k \in DOMAIN d \cup {key} |-> IF k \in DOMAIN d THEN d[k] ELSE default]

\* thread_start with the defaults written into the config by
\* config.setdefault("max_tokens", 512) / config.setdefault("temperature", 1)
\* before gen_kwargs is built from it.
thread_start_setdefault(c) ==
    /\ pc[c] = "prepared"
    /\ config' = [config EXCEPT ![c] =
           SetDefault(SetDefault(@, "max_tokens", DefaultMaxTokens),
                      "temperature", DefaultTemperature)]
    /\ gen_kwargs' = [gen_kwargs EXCEPT ![c] = kwargs_of(config[c])]
    /\ text_queue' = [text_queue EXCEPT ![c] = <<>>]
    /\ error' = [error EXCEPT ![c] = None]
    /\ threads' = [threads EXCEPT ![c] = @ + 1]
    /\ ppc' = [ppc EXCEPT ![c] = "spawned"]
    /\ pc' = [pc EXCEPT ![c] = "started"]
    /\ UNCHANGED <<argMessages, argConfig, stream, returned, raised, result,
                   prepCalls, genCalls, pexc, nput, written, consumerVars, clock>>

\* Lines 199-222: the streamer (an empty queue), gen_kwargs with the
\* defaulted max_tokens / temperature, error = None, and
\* Thread(target=model_generate).start().
thread_start(c) ==
    /\ pc[c] = "prepared"
    /\ gen_kwargs' = [gen_kwargs EXCEPT ![c] = kwargs_of(config[c])]
    /\ text_queue' = [text_queue EXCEPT ![c] = <<>>]
    /\ error' = [error EXCEPT ![c] = None]
    /\ threads' = [threads EXCEPT ![c] = @ + 1]
    /\ ppc' = [ppc EXCEPT ![c] = "spawned"]
    /\ pc' = [pc EXCEPT ![c] = "started"]
    /\ UNCHANGED <<callerVars, prepCalls, genCalls, pexc, nput, written,
                   consumerVars, clock>>

\* completion_id_assign with the uuid taken once at import time: every
\* stream reads the same value.
completion_id_at_import(c) ==
    /\ pc[c] = "started"
    /\ completion_id' = [completion_id EXCEPT ![c] = 1]
    /\ pc' = [pc EXCEPT ![c] = "loop"]
    /\ UNCHANGED <<callerVars, engineVars, producerVars, yielded, cerr,
                   stopIterations, clock>>

\* Line 224: completion_id = str(uuid.uuid1()), once, before the loop.
completion_id_assign(c) ==
    /\ pc[c] = "started"
    /\ completion_id' = [completion_id EXCEPT ![c] = uuid1]
    /\ clock' = clock + 1
    /\ pc' = [pc EXCEPT ![c] = "loop"]
    /\ UNCHANGED <<callerVars, engineVars, producerVars, yielded, cerr,
                   stopIterations>>

\* The chunk of lines 226-236 for one text of the streamer.
content_chunk(c, new_text) ==
    generate_completion_chunk(new_text, None, completion_id[c], model_uid, Sentinel)

\* terminal_chunk as a copy of the content chunk's call, its finish_reason
\* left at None.
terminal_chunk_unfinished(c) ==
    generate_completion_chunk(None, None, completion_id[c], model_uid, Sentinel)

\* The chunk of lines 242-252.
terminal_chunk(c) ==
    generate_completion_chunk(None, "stop", completion_id[c], model_uid, Sentinel)

\* queue_get on a LifoQueue: the newest item is taken.
queue_get_lifo(q) == [item |-> q[Len(q)], rest |-> SubSeq(q, 1, Len(q) - 1)]

\* TextIteratorStreamer.__next__ on a non-empty queue: text_queue.get()
\* takes the oldest item.
queue_get(q) == [item |-> Head(q), rest |-> Tail(q)]

\* Line 225, `for new_text in streamer`, when the queue holds an item: a
\* text is yielded as a content chunk (lines 226-236, the pull returns and
\* the generator stays in the loop); the stop signal ends the loop.
streamer_next(c) ==
    /\ pc[c] = "loop"
    /\ text_queue[c] # <<>>
    /\ LET g == queue_get(text_queue[c]) IN
        /\ text_queue' = [text_queue EXCEPT ![c] = g.rest]
        /\ IF g.item = stop_signal
           THEN /\ pc' = [pc EXCEPT ![c] = "after_loop"]
                /\ UNCHANGED yielded
           ELSE /\ yielded' = [yielded EXCEPT ![c] = Append(@, content_chunk(c, g.item))]
                /\ UNCHANGED pc
    /\ UNCHANGED <<callerVars, engineVars, threads, ppc, pexc, nput, written,
                   error, completion_id, cerr, stopIterations, clock>>

\* streamer_timeout for a streamer built with timeout=None: text_queue.get
\* waits for an item for ever and never raises.
streamer_timeout_none(c) == FALSE /\ UNCHANGED vars

\* streamer_timeout with queue.Empty caught around the loop: the loop is
\* left as if the stream had ended.
streamer_timeout_breaks(c) ==
    /\ pc[c] = "loop"
    /\ text_queue[c] = <<>>
    /\ pc' = [pc EXCEPT ![c] = "after_loop"]
    /\ UNCHANGED <<callerVars, engineVars, producerVars, consumerVars, clock>>

\* Line 225 when the queue stays empty for the streamer's timeout (60.0,
\* line 201): text_queue.get raises queue.Empty out of the generator.
streamer_timeout(c) ==
    /\ pc[c] = "loop"
    /\ text_queue[c] = <<>>
    /\ cerr' = [cerr EXCEPT ![c] = GenerationTimeoutError]
    /\ pc' = [pc EXCEPT ![c] = "closed"]
    /\ UNCHANGED <<callerVars, engineVars, producerVars, completion_id,
                   yielded, stopIterations, clock>>

\* Lines 238-252, after the loop: a set error is re-raised; otherwise the
\* terminal chunk is yielded.
after_loop(c) ==
    /\ pc[c] = "after_loop"
    /\ IF error[c] # None
       THEN /\ cerr' = [cerr EXCEPT ![c] = error[c]]
            /\ pc' = [pc EXCEPT ![c] = "closed"]
            /\ UNCHANGED yielded
       ELSE /\ yielded' = [yielded EXCEPT ![c] = Append(@, terminal_chunk(c))]
            /\ pc' = [pc EXCEPT ![c] = "terminal"]
            /\ UNCHANGED cerr
    /\ UNCHANGED <<callerVars, engineVars, producerVars, completion_id,
                   stopIterations, clock>>

\* The pull after the terminal chunk: the body ends (line 252), the pull
\* is answered by StopIteration.
generator_return(c) ==
    /\ pc[c] = "terminal"
    /\ stopIterations' = [stopIterations EXCEPT ![c] = @ + 1]
    /\ pc' = [pc EXCEPT ![c] = "closed"]
    /\ UNCHANGED <<callerVars, engineVars, producerVars, completion_id,
                   yielded, cerr, clock>>

\* pull_closed for an iterator object that keeps the streamer and goes
\* back to waiting on it when it is pulled again after a timeout.
pull_closed_resumes(c) ==
    /\ pc[c] = "closed"
    /\ stopIterations[c] < MaxExtraPulls
    /\ stopIterations' = [stopIterations EXCEPT ![c] = @ + 1]
    /\ pc' = [pc EXCEPT ![c] = IF cerr[c] = GenerationTimeoutError THEN "loop" ELSE @]
    /\ UNCHANGED <<callerVars, engineVars, producerVars, completion_id,
                   yielded, cerr, clock>>

\* A pull on a generator that has finished (by its end or by a raise):
\* StopIteration, and no code of the body runs.
pull_closed(c) ==
    /\ pc[c] = "closed"
    /\ stopIterations[c] < MaxExtraPulls
    /\ stopIterations' = [stopIterations EXCEPT ![c] = @ + 1]
    /\ UNCHANGED <<pc, callerVars, engineVars, producerVars, completion_id,
                   yielded, cerr, clock>>

(* --------------------------- model_generate --------------------------- *)
(* The producer thread, lines 212-219.  self._model.generate puts decoded  *)
(* text on the streamer as it goes and calls streamer.end() when           *)
(* generation ends; end() puts the flushed text and then the stop signal.  *)
(* The queue is unbounded, so no put waits for the consumer.               *)

\* Line 214: the thread calls self._model.generate(**gen_kwargs).
model_generate(c) ==
    /\ ppc[c] = "spawned"
    /\ genCalls' = [genCalls EXCEPT ![c] = @ + 1]
    /\ ppc' = [ppc EXCEPT ![c] = "generating"]
    /\ UNCHANGED <<pc, callerVars, prepCalls, gen_kwargs, threads, pexc, nput,
                   text_queue, written, error, consumerVars, clock>>

\* generate puts the next decoded text: streamer.put -> text_queue.put.
streamer_put(c) ==
    /\ ppc[c] = "generating"
    /\ nput[c] < MaxFrags
    /\ text_queue' = [text_queue EXCEPT ![c] = Append(@, EngineText(nput[c] + 1))]
    /\ written' = [written EXCEPT ![c] = Append(@, EngineText(nput[c] + 1))]
    /\ nput' = [nput EXCEPT ![c] = @ + 1]
    /\ UNCHANGED <<pc, callerVars, engineVars, threads, ppc, pexc, error,
                   consumerVars, clock>>

\* streamer.end(), first half: on_finalized_text puts the flushed text.
end_flush(c, from, to) ==
    /\ ppc[c] = from
    /\ text_queue' = [text_queue EXCEPT ![c] = Append(@, FlushText)]
    /\ written' = [written EXCEPT ![c] = Append(@, FlushText)]
    /\ ppc' = [ppc EXCEPT ![c] = to]
    /\ UNCHANGED <<pc, callerVars, engineVars, threads, pexc, nput, error,
                   consumerVars, clock>>

\* end_stop on a streamer whose text_queue is a Queue(maxsize=1): put
\* waits while the queue is full, i.e. until the consumer takes an item.
end_stop_bounded(c, from, to) ==
    /\ ppc[c] = from
    /\ Len(text_queue[c]) < 1
    /\ text_queue' = [text_queue EXCEPT ![c] = Append(@, stop_signal)]
    /\ ppc' = [ppc EXCEPT ![c] = to]
    /\ UNCHANGED <<pc, callerVars, engineVars, threads, pexc, nput, written,
                   error, consumerVars, clock>>

\* streamer.end(), second half: stream_end puts the stop signal.
end_stop(c, from, to) ==
    /\ ppc[c] = from
    /\ text_queue' = [text_queue EXCEPT ![c] = Append(@, stop_signal)]
    /\ ppc' = [ppc EXCEPT ![c] = to]
    /\ UNCHANGED <<pc, callerVars, engineVars, threads, pexc, nput, written,
                   error, consumerVars, clock>>

\* Generation ends naturally: generate calls streamer.end() and returns
\* (line 214); the thread ends.
generate_end_flush(c) == end_flush(c, "generating", "ending")

generate_end_stop(c) == end_stop(c, "ending", "finished")

\* self._model.generate raises e.  An Exception enters the handler of line
\* 215; any other BaseException ends the thread with nothing else done.
generate_raises(c) ==
    /\ ppc[c] = "generating"
    /\ \E e \in EngineErrors :
        /\ pexc' = [pexc EXCEPT ![c] = e]
        /\ ppc' = [ppc EXCEPT ![c] = IF e \in ExceptionErrors THEN "except" ELSE "dead"]
    /\ UNCHANGED <<pc, callerVars, engineVars, threads, nput, text_queue,
                   written, error, consumerVars, clock>>

\* except_set_error without `nonlocal error`: the assignment binds a local
\* of model_generate and the generator's error stays None.
except_set_error_local(c) ==
    /\ ppc[c] = "except"
    /\ ppc' = [ppc EXCEPT ![c] = "except_end"]
    /\ UNCHANGED <<pc, callerVars, engineVars, threads, pexc, nput, text_queue,
                   written, error, consumerVars, clock>>

\* except_set_error with lines 217 and 218 in the other order: the handler
\* calls streamer.end() first and assigns error only after the stop signal
\* is on the queue.
except_set_error_after_end(c) ==
    \/ /\ ppc[c] = "except"
       /\ ppc' = [ppc EXCEPT ![c] = "except_end"]
       /\ UNCHANGED <<pc, callerVars, engineVars, threads, pexc, nput,
                      text_queue, written, error, consumerVars, clock>>
    \/ /\ ppc[c] = "dead" /\ pexc[c] \in ExceptionErrors /\ error[c] = None
       /\ error' = [error EXCEPT ![c] = pexc[c]]
       /\ UNCHANGED <<pc, callerVars, engineVars, threads, ppc, pexc, nput,
                      text_queue, written, consumerVars, clock>>

\* except_set_error with the error kept on the model object (self._error)
\* instead of in a local of the generator: every stream of the object
\* reads the same slot.
except_set_error_shared(c) ==
    /\ ppc[c] = "except"
    /\ error' = [d \in Calls |-> pexc[c]]
    /\ ppc' = [ppc EXCEPT ![c] = "except_end"]
    /\ UNCHANGED <<pc, callerVars, engineVars, threads, pexc, nput, text_queue,
                   written, consumerVars, clock>>

\* Lines 216-217: error = sys.exc_info().
except_set_error(c) ==
    /\ ppc[c] = "except"
    /\ error' = [error EXCEPT ![c] = pexc[c]]
    /\ ppc' = [ppc EXCEPT ![c] = "except_end"]
    /\ UNCHANGED <<pc, callerVars, engineVars, threads, pexc, nput, text_queue,
                   written, consumerVars, clock>>

\* Line 218: streamer.end() in the handler.
except_end_flush(c) == end_flush(c, "except_end", "except_ending")

\* Line 218-219: the stop signal, then `raise` ends the thread.
except_end_stop(c) == end_stop(c, "except_ending", "dead")

(* ------------------------------- Next --------------------------------- *)

Caller(c) == chat(c) \/ _generate_prepare(c) \/ _generate(c)

Consumer(c) ==
    \/ _generate_stream_prepare(c)
    \/ thread_start(c)
    \/ completion_id_assign(c)
    \/ streamer_next(c)
    \/ streamer_timeout(c)
    \/ after_loop(c)
    \/ generator_return(c)
    \/ pull_closed(c)

Producer(c) ==
    \/ model_generate(c)
    \/ streamer_put(c)
    \/ generate_end_flush(c)
    \/ generate_end_stop(c)
    \/ generate_raises(c)
    \/ except_set_error(c)
    \/ except_end_flush(c)
    \/ except_end_stop(c)

Next == \E c \in Calls : Caller(c) \/ Consumer(c) \/ Producer(c)

Spec == Init /\ [][Next]_vars

\* The consumer keeps pulling, and a wait on the queue ends: by an item
\* when there is one, by the timeout when the queue stays empty.  Nothing
\* is assumed of the producer: it may stall at any point for ever.
ConsumerPulls == \A c \in Calls : WF_vars(Consumer(c))

\* One streaming or synchronous invocation on its own, its consumer fair.
OneCall == Caller(1) \/ Consumer(1) \/ Producer(1)

FairSpec == Init /\ [][OneCall]_vars /\ ConsumerPulls

\* The producer thread started at line 222 is scheduled until it ends, and
\* self._model.generate does not run for ever (max_new_tokens bounds it).
\* Nothing is assumed of the consumer: it may stop pulling at any point.
ProducerRuns == \A c \in Calls : WF_vars(Producer(c))

ProducerFairSpec == Init /\ [][OneCall]_vars /\ ProducerRuns

(* ------------------------- observed sequences ------------------------- *)

\* The texts of a sequence of chunks / the items of a queue that are texts.
TextsOf(chunks) == [i \in DOMAIN chunks |-> chunks[i].text]

IsContent(ch) == ch.finish_reason = None

IsStop(ch) == ch.finish_reason = "stop" /\ ch.text = None

ContentTexts(c) == TextsOf(SelectSeq(yielded[c], IsContent))

IsText(x) == x # stop_signal

QueueTexts(c) == SelectSeq(text_queue[c], IsText)

IsPrefix(a, b) == Len(a) <= Len(b) /\ a = SubSeq(b, 1, Len(a))

Streaming(c) == pc[c] \notin {"idle", "raised"} /\ stream[c]

\* The consumer has pulled the generator to its end (by StopIteration or
\* by a raise).
Exhausted(c) == Streaming(c) /\ pc[c] = "closed"

TimedOut(c) == cerr[c] = GenerationTimeoutError

YieldedStop(c) == \E i \in DOMAIN yielded[c] : yielded[c][i].finish_reason # None

(* -------------------------------- C1 ---------------------------------- *)

\* C1: in every execution a chunk with a non-null finish_reason is the last
\* chunk yielded (so there is at most one and nothing follows it); and when
\* the producer finished without failing and the consumer, never timed out,
\* has pulled to exhaustion, the last chunk is the terminal one (text None,
\* finish_reason "stop"), every chunk before it has finish_reason None, no
\* error was raised and the pull after it was answered by StopIteration.
C1_OneTerminalLast ==
    \A c \in Calls :
        /\ \A i \in DOMAIN yielded[c] :
              yielded[c][i].finish_reason # None => i = Len(yielded[c])
        /\ (Exhausted(c) /\ ppc[c] = "finished" /\ ~TimedOut(c)) =>
              /\ yielded[c] # <<>>
              /\ IsStop(yielded[c][Len(yielded[c])])
              /\ \A i \in 1..(Len(yielded[c]) - 1) : IsContent(yielded[c][i])
              /\ cerr[c] = None
              /\ stopIterations[c] >= 1

\* A stream of MaxFrags texts pulled to exhaustion after a clean end.
C1_Witness ==
    \E c \in Calls :
        /\ Exhausted(c) /\ ppc[c] = "finished" /\ ~TimedOut(c)
        /\ nput[c] = MaxFrags
        /\ Len(yielded[c]) = MaxFrags + 2

(* -------------------------------- C2 ---------------------------------- *)

\* C2 as stated: whenever the producer has failed and the consumer has
\* pulled to exhaustion, the consumer was handed exactly the texts the
\* producer put on the channel, then the producer's error, and no chunk
\* with finish_reason "stop".
C2_AsStated ==
    \A c \in Calls :
        (Exhausted(c) /\ pexc[c] # None) =>
            /\ cerr[c] = pexc[c]
            /\ ContentTexts(c) = written[c]
            /\ ~YieldedStop(c)

\* C2 (amended): a stream whose producer has failed never yields a chunk
\* with a non-null finish_reason; and if no wait of the consumer timed out,
\* then at exhaustion the consumer was handed exactly the texts the
\* producer thread put on the channel (the texts generate put and the text
\* streamer.end() flushed), in order, all as content chunks, and the pull
\* after them raised the very error generate raised.
C2_ErrorSurfaced ==
    \A c \in Calls :
        /\ (Streaming(c) /\ pexc[c] # None) => ~YieldedStop(c)
        /\ (Exhausted(c) /\ pexc[c] # None /\ ~TimedOut(c)) =>
              /\ cerr[c] = pexc[c]
              /\ pexc[c] \in ExceptionErrors
              /\ ContentTexts(c) = written[c]
              /\ Len(yielded[c]) = Len(written[c])

\* The producer failed after MaxFrags texts and the consumer got them all
\* and then the error.
C2_Witness ==
    \E c \in Calls :
        /\ Exhausted(c) /\ pexc[c] # None /\ cerr[c] = pexc[c]
        /\ nput[c] = MaxFrags
        /\ Len(yielded[c]) = MaxFrags + 1

(* -------------------------------- C3 ---------------------------------- *)

\* C3: at every point the texts handed to the consumer are a prefix of the
\* texts put on the channel, and while the consumer is in the loop the
\* texts handed over followed by the texts waiting in the queue are exactly
\* the texts put; once the terminal chunk is yielded the two sequences are
\* equal and the terminal chunk comes after every content chunk.
C3_Ordering ==
    \A c \in Calls :
        /\ IsPrefix(ContentTexts(c), written[c])
        /\ pc[c] = "loop" => ContentTexts(c) \o QueueTexts(c) = written[c]
        /\ YieldedStop(c) =>
              /\ ContentTexts(c) = written[c]
              /\ Len(yielded[c]) = Len(written[c]) + 1
              /\ ~IsContent(yielded[c][Len(yielded[c])])

\* A clean end after MaxFrags texts, all of them handed over in order.
C3_Witness ==
    \E c \in Calls :
        /\ YieldedStop(c)
        /\ nput[c] = MaxFrags
        /\ Len(ContentTexts(c)) = MaxFrags + 1
        /\ ContentTexts(c)[1] # ContentTexts(c)[2]

(* -------------------------------- C4 ---------------------------------- *)

\* C4: a consumer waiting in the loop on an empty queue leaves the wait only
\* by the timeout error (queue.Empty), whatever the error slot holds, and
\* that pull yields nothing; a stream that timed out is finished for good,
\* with the timeout as its error, no chunk with finish_reason "stop", and
\* one producer thread and at most one call of generate ever started.
C4_Timeout ==
    /\ [][\A c \in Calls :
            (pc[c] = "loop" /\ text_queue[c] = <<>> /\ pc'[c] # "loop") =>
                /\ cerr'[c] = GenerationTimeoutError
                /\ pc'[c] = "closed"
                /\ yielded'[c] = yielded[c]]_vars
    /\ [](\A c \in Calls :
            TimedOut(c) =>
                /\ pc[c] = "closed"
                /\ ~YieldedStop(c)
                /\ threads[c] = 1
                /\ genCalls[c] <= 1)

\* A timeout after the producer wrote and the consumer took some texts,
\* with the producer's error already in the slot.
C4_Witness ==
    \E c \in Calls :
        /\ TimedOut(c)
        /\ Len(yielded[c]) >= 1
        /\ error[c] # None

(* -------------------------------- C5 ---------------------------------- *)

\* C5: when the consumer keeps pulling, every stream chat returned reaches
\* its end (the generator is finished: after the terminal chunk, by the
\* producer's error, by the timeout or by a failed preparation), whether
\* the producer finishes, fails or stalls for ever.
C5_Finite == \A c \in Calls : (pc[c] = "created") ~> (pc[c] = "closed")

\* A stream ended by the timeout while its producer, stalled, still runs.
C5_Witness ==
    \E c \in Calls :
        /\ Exhausted(c) /\ TimedOut(c)
        /\ ppc[c] = "generating"
        /\ nput[c] >= 1

(* -------------------------------- C6 ---------------------------------- *)

\* What the caller asked for: generate_config is given and maps "stream"
\* to True.
WantsStream(g) == g.given /\ "stream" \in DOMAIN g.opts /\ g.opts["stream"]

\* A call whose messages chat accepted.
Accepted(c) == pc[c] # "idle" /\ raised[c] # ValidationError

\* C6: the `stream` chat read is what the caller's config says (False when
\* the key or the config is missing) and never changes afterwards, nor does
\* what chat returned.  With stream false no thread is started and nothing
\* is yielded, chat never returns an iterator, and when it returns it
\* returns one ChatCompletion after one call of generate.  With stream true
\* chat returns the iterator, raises nothing, builds no ChatCompletion and
\* never enters _generate.
C6_StreamDecidesShape ==
    /\ [](\A c \in Calls :
            Accepted(c) =>
                /\ stream[c] = WantsStream(argConfig[c])
                /\ ~stream[c] =>
                      /\ threads[c] = 0 /\ ppc[c] = "none"
                      /\ yielded[c] = <<>>
                      /\ returned[c] # "Iterator"
                      /\ pc[c] \in {"generate_prepare", "generate", "returned", "raised"}
                      /\ pc[c] = "returned" =>
                            /\ returned[c] = "ChatCompletion"
                            /\ result[c] # NoResult
                            /\ genCalls[c] = 1
                /\ stream[c] =>
                      /\ returned[c] = "Iterator"
                      /\ raised[c] = None
                      /\ result[c] = NoResult
                      /\ pc[c] \notin {"generate_prepare", "generate", "returned", "raised"})
    /\ [][\A c \in Calls :
            pc[c] # "idle" =>
                /\ stream'[c] = stream[c]
                /\ returned[c] # "nothing" => returned'[c] = returned[c]]_vars

\* A call without a config that returned a ChatCompletion, and a call with
\* stream set that is yielding chunks from its producer thread.
C6_Witness ==
    \E c, d \in Calls :
        /\ ~argConfig[c].given /\ pc[c] = "returned"
        /\ WantsStream(argConfig[d]) /\ threads[d] = 1 /\ Len(yielded[d]) >= 1

(* -------------------------------- C7 ---------------------------------- *)

C8_OnceNoRetry ==
    \A c \in Calls :
        /\ genCalls[c] <= 1
        /\ threads[c] <= 1
        /\ pc[c] = "returned" => genCalls[c] = 1 /\ prepCalls[c] = 1
        /\ (Accepted(c) /\ ~stream[c] /\ pexc[c] # None) =>
              /\ pc[c] = "raised"
              /\ raised[c] = pexc[c]
              /\ returned[c] = "nothing"
              /\ result[c] = NoResult
              /\ genCalls[c] = 1

\* A synchronous call failed by generate, and a stream ended by the
\* producer's error or by the timeout.
C8_Witness ==
    \E c, d \in Calls :
        /\ Accepted(c) /\ ~stream[c] /\ pexc[c] # None
        /\ Exhausted(d) /\ cerr[d] # None /\ genCalls[d] = 1

(* -------------------------------- C9 ---------------------------------- *)

\* C9: every chunk a stream yielded, content or terminal, carries that
\* stream's completion_id, which is assigned before any chunk; and chunks
\* of two different invocations never carry the same id.
C9_StreamId ==
    /\ \A c \in Calls :
          \A i \in DOMAIN yielded[c] :
              /\ yielded[c][i].id = yielded[c][1].id
              /\ yielded[c][i].id = completion_id[c]
              /\ completion_id[c] # 0
    /\ \A c, d \in Calls :
          c # d =>
              \A i \in DOMAIN yielded[c], j \in DOMAIN yielded[d] :
                  yielded[c][i].id # yielded[d][j].id

\* Two invocations with the same messages and config, both streamed to the
\* terminal chunk.
C9_Witness ==
    \E c, d \in Calls :
        /\ c # d
        /\ argMessages[c] = argMessages[d] /\ argConfig[c] = argConfig[d]
        /\ YieldedStop(c) /\ YieldedStop(d)
        /\ Len(yielded[c]) >= 2 /\ Len(yielded[d]) >= 2

(* -------------------------------- C10 --------------------------------- *)

Usage(r) == {r.usage.prompt_tokens, r.usage.completion_tokens, r.usage.total_tokens}

\* C10 as stated: the ChatCompletion a synchronous chat call returned has
\* finish_reason "stop" and usage counters none of which is the -1
\* sentinel.
C10_AsStated ==
    \A c \in Calls :
        pc[c] = "returned" =>
            /\ result[c].finish_reason = "stop"
            /\ Sentinel \notin Usage(result[c])

(* -------------------------------- C11 --------------------------------- *)

\* The value the caller's config gives key, or default when the config or
\* the key is missing.
Passed(g, key, default) ==
    IF g.given /\ key \in DOMAIN g.opts THEN g.opts[key] ELSE default

\* C11: at every point after chat accepted a call, the caller's config dict
\* (which chat's generate_config names when it is truthy) has exactly the
\* keys and values it was passed with; stream is the caller's value or
\* False; and the max_new_tokens and temperature built for generate, in
\* _generate and in _generate_stream alike, are the caller's values where
\* set and 512 and 1 where not.
C11_ConfigUntouched ==
    \A c \in Calls :
        Accepted(c) =>
            /\ Truthy(argConfig[c]) => config[c] = argConfig[c].opts
            /\ ~Truthy(argConfig[c]) => config[c] = NoOpts
            /\ stream[c] = Passed(argConfig[c], "stream", FALSE)
            /\ gen_kwargs[c] # NoKwargs =>
                  /\ gen_kwargs[c].max_new_tokens = Passed(argConfig[c], "max_tokens", 512)
                  /\ gen_kwargs[c].temperature = Passed(argConfig[c], "temperature", 1)

\* A stream generating with the caller's max_tokens and temperature, and a
\* synchronous call that generated with the defaults from a config that
\* sets only stream.
C11_Witness ==
    \E c, d \in Calls :
        /\ stream[c] /\ genCalls[c] = 1
        /\ gen_kwargs[c] = [max_new_tokens |-> 16, temperature |-> 2]
        /\ Accepted(d) /\ ~stream[d] /\ genCalls[d] = 1
        /\ DOMAIN argConfig[d].opts = {"stream"}
        /\ gen_kwargs[d] = [max_new_tokens |-> 512, temperature |-> 1]

(* -------------------------------- C12 --------------------------------- *)

\* The input preparation of call c failed.
PrepareFailed(c) == TemplateError \in {raised[c], cerr[c]}

\* C12 as stated: when the input preparation of a call failed, in either
\* mode, TemplateError was raised by the chat call itself, which returned
\* nothing, and not by a pull on a returned iterator; and neither generate
\* nor a producer thread was ever started for the call.
C12_AsStated ==
    \A c \in Calls :
        PrepareFailed(c) =>
            /\ raised[c] = TemplateError
            /\ returned[c] = "nothing"
            /\ cerr[c] = None
            /\ genCalls[c] = 0 /\ threads[c] = 0

(* -------------------------------- C13 --------------------------------- *)

\* The stop signal of call c is on its queue, not yet taken.
StopQueued(c) == \E i \in DOMAIN text_queue[c] : text_queue[c][i] = stop_signal

\* C13: the producer writes `error` at most once per stream, and when
\* generate failed it writes it before the stop signal goes on the queue;
\* the consumer reads `error` only after it has taken the stop signal.  So
\* whenever the stop signal of a failed producer is on the queue or has
\* been taken, error is already set to the failure, and what the consumer
\* raises from after the loop is that failure.
C13_Handshake ==
    /\ [](\A c \in Calls :
            (pexc[c] # None /\ Streaming(c) /\ (StopQueued(c) \/ pc[c] = "after_loop"))
                => error[c] = pexc[c])
    /\ [][\A c \in Calls :
            /\ error[c] # None => error'[c] = error[c]
            /\ (pc'[c] = "after_loop" /\ pc[c] # "after_loop")
                  => text_queue[c] # <<>> /\ Head(text_queue[c]) = stop_signal
            /\ (cerr'[c] # cerr[c] /\ cerr'[c] \in EngineErrors)
                  => pc[c] = "after_loop" /\ cerr'[c] = pexc[c]]_vars

C13_Witness ==
    \E c \in Calls :
        /\ pc[c] = "after_loop" /\ ppc[c] = "dead"
        /\ pexc[c] \in ExceptionErrors /\ error[c] = pexc[c]
        /\ Len(yielded[c]) = MaxFrags + 1

(* -------------------------------- C14 --------------------------------- *)

\* The producer thread of call c has ended.
Terminated(c) == ppc[c] \in {"finished", "dead"}

IsStopSignal(x) == x = stop_signal

\* The consumer of call c has taken the stop signal off the queue: the for
\* loop of line 225 was left by StopIteration.
StopTaken(c) ==
    \/ pc[c] \in {"after_loop", "terminal"}
    \/ pc[c] = "closed" /\ cerr[c] \notin {GenerationTimeoutError, TemplateError}

\* The number of stop signals the producer of call c has put.
StopsPut(c) ==
    Len(SelectSeq(text_queue[c], IsStopSignal)) + (IF StopTaken(c) THEN 1 ELSE 0)

\* C14 as stated: whenever the producer thread has ended, by the natural
\* end of generation or by a failure of any kind, it has put the stop
\* signal exactly once; so a consumer waiting in the loop for a producer
\* that has ended always finds an item on the queue and never the timeout.
C14_AsStated ==
    \A c \in Calls :
        Terminated(c) =>
            /\ StopsPut(c) = 1
            /\ pc[c] = "loop" => text_queue[c] # <<>>

(* -------------------------------- C15 --------------------------------- *)

\* A step of the generator of call c, i.e. a pull by its consumer.
PullStep(c) ==
    \/ pc'[c] # pc[c] /\ pc[c] \notin {"idle", "generate_prepare", "generate"}
    \/ stopIterations'[c] # stopIterations[c]

\* C15: whatever the consumer does, and so also when it stops pulling at
\* any point before the end (after a timeout included), the producer is
\* neither interrupted nor blocked: no pull changes the producer's position
\* or outcome once the thread exists, a producer that has not ended always
\* has a step it can take with no help from the consumer, every put it is
\* about to make is possible at once, and a producer that keeps being
\* scheduled ends, by the end of generation or by a failure.
C15_Abandonment ==
    /\ [][\A c \in Calls :
            (PullStep(c) /\ ppc[c] # "none") =>
                /\ ppc'[c] = ppc[c] /\ pexc'[c] = pexc[c] /\ error'[c] = error[c]
                /\ nput'[c] = nput[c] /\ written'[c] = written[c]]_vars
    /\ [](\A c \in Calls :
            /\ (ppc[c] \notin {"none", "finished", "dead"}) => ENABLED Producer(c)
            /\ (ppc[c] = "generating" /\ nput[c] < MaxFrags) => ENABLED streamer_put(c)
            /\ ppc[c] = "ending" => ENABLED generate_end_stop(c)
            /\ ppc[c] = "except_ending" => ENABLED except_end_stop(c))
    /\ \A c \in Calls : (ppc[c] = "spawned") ~> Terminated(c)

C15_Witness ==
    \E c \in Calls :
        /\ ppc[c] = "finished" /\ nput[c] = MaxFrags
        /\ pc[c] = "loop" /\ Len(yielded[c]) = 1
        /\ Len(text_queue[c]) = MaxFrags + 1

(* -------------------------------- C16 --------------------------------- *)

\* The consumer of call c has seen the end of its stream: the terminal
\* chunk, or an error raised by a pull.
Ended(c) == Streaming(c) /\ pc[c] \in {"terminal", "closed"}

\* C16: once the consumer has seen the terminal chunk, a re-raised
\* producer error or the timeout error, no later step yields a chunk or
\* raises an error on that stream, whatever the producer still puts or
\* sets: the chunks and the error stay as they are, nothing more is taken
\* off the queue, every further pull is answered by StopIteration, the
\* generator never leaves its end, and no pull prepares inputs, starts a
\* thread or calls generate; generate is called at most once per stream.
C16_EndIsFinal ==
    /\ [][\A c \in Calls :
            Ended(c) =>
                /\ yielded'[c] = yielded[c] /\ cerr'[c] = cerr[c]
                /\ completion_id'[c] = completion_id[c]
                /\ pc'[c] = "closed"
                      \/ (pc'[c] = "terminal" /\ stopIterations'[c] = stopIterations[c])
                /\ stopIterations'[c] \in {stopIterations[c], stopIterations[c] + 1}
                /\ IsPrefix(text_queue[c], text_queue'[c])
                /\ prepCalls'[c] = prepCalls[c] /\ threads'[c] = threads[c]
                /\ PullStep(c) => genCalls'[c] = genCalls[c]]_vars
    /\ [](\A c \in Calls : genCalls[c] <= 1 /\ prepCalls[c] <= 1)

C16_Witness ==
    \E c \in Calls :
        /\ Ended(c) /\ TimedOut(c) /\ stopIterations[c] >= 1
        /\ ppc[c] = "dead" /\ error[c] \in ExceptionErrors
        /\ StopQueued(c) /\ Len(text_queue[c]) >= 2

(* -------------------------------- C17 --------------------------------- *)

\* Call c has returned its iterator and no element was pulled from it yet.
Unpulled(c) == pc[c] = "created"

\* C17: with stream set, chat returns the iterator in its own step,
\* without preparing inputs, calling generate or starting a thread: as
\* long as nothing is pulled from it, none of that happens.  The
\* preparation and the thread start are steps of the first pull; from then
\* on the producer's steps need no step of the consumer (see C15) and its
\* one generate call is made by its own thread.  No streaming call ever
\* has more than one producer thread.
C17_LazyStart ==
    /\ [](\A c \in Calls :
            /\ Unpulled(c) =>
                  /\ returned[c] = "Iterator" /\ raised[c] = None
                  /\ prepCalls[c] = 0 /\ genCalls[c] = 0 /\ gen_kwargs[c] = NoKwargs
                  /\ threads[c] = 0 /\ ppc[c] = "none" /\ text_queue[c] = <<>>
            /\ threads[c] <= 1
            /\ (threads[c] = 1) <=> (ppc[c] # "none")
            /\ (threads[c] = 1) => Streaming(c) /\ prepCalls[c] = 1)
    /\ [][\A c \in Calls :
            /\ (pc[c] = "idle" /\ stream'[c] /\ pc'[c] # "raised") => Unpulled(c)'
            /\ (Streaming(c) /\ genCalls'[c] # genCalls[c])
                  => ppc[c] = "spawned" /\ ppc'[c] = "generating" /\ pc'[c] = pc[c]]_vars

C17_Witness ==
    \E c, d \in Calls :
        /\ Unpulled(c) /\ Exhausted(d) /\ YieldedStop(d)
        /\ threads[d] = 1 /\ genCalls[d] = 1

(* -------------------------------- C18 --------------------------------- *)

\* Everything that belongs to call c: its arguments and locals, its
\* streamer's queue, its error, its completion_id, its chunks.
PerCall(c) ==
    <<pc[c], argMessages[c], argConfig[c], stream[c], config[c], returned[c],
      raised[c], result[c], prepCalls[c], genCalls[c], gen_kwargs[c],
      threads[c], ppc[c], pexc[c], nput[c], text_queue[c], written[c],
      error[c], completion_id[c], yielded[c], cerr[c], stopIterations[c]>>

\* C18: two streaming calls on the same model object, interleaved in any
\* way, share nothing: a step of one call changes no queue, error,
\* completion_id or chunk of the other; the texts a consumer has been
\* given, followed by those still on its queue, are exactly the texts its
\* own producer put; two streams never have the same completion_id; an
\* engine failure raised on a stream is the failure of its own producer;
\* and a stream whose own producer did not fail yields its terminal chunk
\* once its stop signal is taken, whatever happened to the other stream.
C18_Isolation ==
    /\ [][\A c, d \in Calls :
            (c # d /\ PerCall(c)' # PerCall(c)) => PerCall(d)' = PerCall(d)]_vars
    /\ [](\A c \in Calls :
            Streaming(c) =>
                /\ ContentTexts(c) \o QueueTexts(c) = written[c]
                /\ cerr[c] \in EngineErrors => cerr[c] = pexc[c]
                /\ error[c] \in {None, pexc[c]}
                /\ (StopTaken(c) /\ pexc[c] = None /\ pc[c] # "after_loop")
                      => YieldedStop(c) /\ cerr[c] = None
                /\ \A d \in Calls :
                      (d # c /\ Streaming(d) /\ completion_id[c] # 0)
                          => completion_id[d] # completion_id[c])

C18_Witness ==
    \E c, d \in Calls :
        /\ c # d /\ Streaming(c) /\ Streaming(d)
        /\ cerr[c] \in ExceptionErrors
        /\ pc[d] = "terminal" /\ pexc[d] = None
        /\ Len(yielded[d]) = MaxFrags + 2
        /\ completion_id[d] < completion_id[c]

====
